---- MODULE Spec2Model ----
(***************************************************************************)
(* The suite client's generic JSON request executor                       *)
(* (corp/suite/client.go): PostJSON and GetJSON, one logical call per      *)
(* behaviour.  The credential provider (AccessTokenServer), the HTTP       *)
(* transport and the remote server are the environment: every result they  *)
(* can hand back is an input chosen with \E.                               *)
(***************************************************************************)
EXTENDS Integers, Sequences, FiniteSets, TLC

(***************************************************************************)
(* Bounds of the model.                                                    *)
(***************************************************************************)
\* the provider hands out tokens of 1..MaxTokenLen characters
MaxTokenLen == 2
\* payload values carried by a response are 1..MaxData
MaxData == 1
\* number of buffer objects the pool can hand out
NumBuffers == 2
\* number of calls made on the same client, concurrently or in turn
NumCalls == 2

(***************************************************************************)
(* Program constants.                                                      *)
(***************************************************************************)
ErrCodeOK == 0
ErrCodeSuiteAccessTokenExpired == 42001
StatusOK == 200

(***************************************************************************)
(* Go values as reflect sees them: a kind and either a scalar or the       *)
(* ordered fields of a struct.  names[i] is the json tag of field i; the  *)
(* empty tag marks an embedded (anonymous) struct field.                   *)
(***************************************************************************)
IntV(n) == [kind |-> "int", val |-> n]

StrV(s) == [kind |-> "string", val |-> s]

StructV(n, f) == [kind |-> "struct", names |-> n, fields |-> f]

\* type Error struct { ErrCode int `json:"errcode"`; ErrMsg string `json:"errmsg"` }
Error(code, msg) == StructV(<<"errcode", "errmsg">>, <<IntV(code), StrV(msg)>>)

\* struct { corp.Error; Data int `json:"data"` }: the shape PostJSON's NOTE asks for
Result(code, msg, data) == StructV(<<"", "data">>, <<Error(code, msg), IntV(data)>>)

\* reflect.Value.Field(i), i counted from 0
Field(v, i) == v.fields[i + 1]

\* reflect.Value.Kind()
Kind(v) == v.kind

\* Zero forgotten: the value is left as it is
ZeroNone(v) == v

\* Zero clearing the status object only: the first field of an embedding
\* struct is cleared and its other fields are kept
ZeroStatusOnly(v) ==
    IF v.fields[1].kind = "struct"
        THEN StructV(v.names,
                 [i \in DOMAIN v.fields |->
                     IF i = 1
                         THEN StructV(v.fields[1].names,
                                  <<[kind |-> "int", val |-> 0],
                                    [kind |-> "string", val |-> <<>>]>>)
                         ELSE v.fields[i]])
        ELSE StructV(v.names, <<[kind |-> "int", val |-> 0],
                                [kind |-> "string", val |-> <<>>]>>)

\* reflect.New(t).Elem(): the zero value of v's type
RECURSIVE Zero(_)
Zero(v) ==
    CASE v.kind = "int" -> IntV(0)
      [] v.kind = "string" -> StrV(<<>>)
      [] v.kind = "struct" ->
            StructV(v.names, [i \in DOMAIN v.fields |-> Zero(v.fields[i])])
      [] OTHER -> v

(***************************************************************************)
(* Go strings are sequences of one-character strings, so that formatting   *)
(* and escaping are computed character by character.                       *)
(***************************************************************************)
\* concatenation of a sequence of strings
RECURSIVE Concat(_)
Concat(ss) == IF ss = <<>> THEN <<>> ELSE Head(ss) \o Concat(Tail(ss))

Digits == <<"0", "1", "2", "3", "4", "5", "6", "7", "8", "9">>

HexDigits == Digits \o <<"A", "B", "C", "D", "E", "F">>

\* fmt's %d of a non-negative int
RECURSIVE FormatInt(_)
FormatInt(n) ==
    IF n < 10 THEN <<Digits[n + 1]>>
    ELSE FormatInt(n \div 10) \o <<Digits[(n % 10) + 1]>>

\* the characters a token is made of, with their byte values
TokenAlphabet == <<"&", " ", "a">>

CharCode(c) == CASE c = "a" -> 97 [] c = " " -> 32 [] c = "&" -> 38

\* net/url shouldEscape(c, encodeQueryComponent): letters stay, the rest is escaped
ShouldEscape(c) == c \notin {"a"}

\* url.QueryEscape: ' ' becomes '+', an escaped byte becomes %XX
QueryEscape(s) ==
    Concat([i \in DOMAIN s |->
        IF ~ShouldEscape(s[i]) THEN <<s[i]>>
        ELSE IF s[i] = " " THEN <<"+">>
        ELSE <<"%", HexDigits[(CharCode(s[i]) \div 16) + 1],
                     HexDigits[(CharCode(s[i]) % 16) + 1]>>])

(***************************************************************************)
(* encoding/json.                                                          *)
(***************************************************************************)
\* a Go value json cannot encode
ChanV == [kind |-> "chan"]

\* json's encoding of a string: quoted, '"' escaped, '&' written as \u0026
EncodeString(s) ==
    <<"\"">> \o
    Concat([i \in DOMAIN s |->
        IF s[i] = "\"" THEN <<"\\", "\"">>
        ELSE IF s[i] = "&" THEN <<"\\", "u", "0", "0", "2", "6">>
        ELSE <<s[i]>>]) \o
    <<"\"">>

\* json.Marshal of a value that can be encoded
Marshal(v) ==
    CASE v.kind = "int" -> FormatInt(v.val)
      [] v.kind = "string" -> EncodeString(v.val)

\* whether json refuses the value (*json.UnsupportedTypeError)
Unsupported(v) == v.kind = "chan"

\* a response body: malformed text, or a JSON object given by its members
MalformedBody == [valid |-> FALSE, members |-> <<>>]

ObjectBody(m) == [valid |-> TRUE, members |-> m]

\* Unmarshal that never stores the errmsg member
RECURSIVE UnmarshalSkipMsg(_, _)
UnmarshalSkipMsg(v, m) ==
    StructV(v.names,
        [i \in DOMAIN v.fields |->
            IF v.names[i] = "" THEN UnmarshalSkipMsg(v.fields[i], m)
            ELSE IF /\ v.names[i] \in DOMAIN m
                    /\ v.names[i] # "errmsg"
                    /\ m[v.names[i]].kind = v.fields[i].kind
                 THEN m[v.names[i]]
                 ELSE v.fields[i]])

\* Unmarshal of an object into a struct: a member whose name matches a field
\* and whose JSON type fits is stored; an absent or ill-typed member leaves
\* the field as it was; an embedded struct takes the members of its parent.
RECURSIVE Unmarshal(_, _)
Unmarshal(v, m) ==
    StructV(v.names,
        [i \in DOMAIN v.fields |->
            IF v.names[i] = "" THEN Unmarshal(v.fields[i], m)
            ELSE IF v.names[i] \in DOMAIN m /\ m[v.names[i]].kind = v.fields[i].kind
                 THEN m[v.names[i]]
                 ELSE v.fields[i]])

\* whether Unmarshal reports a *json.UnmarshalTypeError
RECURSIVE TypeMismatch(_, _)
TypeMismatch(v, m) ==
    \E i \in DOMAIN v.fields :
        IF v.names[i] = "" THEN TypeMismatch(v.fields[i], m)
        ELSE v.names[i] \in DOMAIN m /\ m[v.names[i]].kind # v.fields[i].kind

(***************************************************************************)
(* Errors: nil, or an error value with the text of its Error() method.     *)
(***************************************************************************)
Nil == [kind |-> "nil", text |-> <<>>]

Err(k, t) == [kind |-> k, text |-> t]

\* fmt.Errorf("http.Status: %s", httpResp.Status)
StatusError(status) ==
    Err("errorString", <<"h", "t", "t", "p", ".", "S", "t", "a", "t", "u", "s", ":", " ">> \o status)

\* func (e *Error) Error() string
ErrorText(e) ==
    <<"e", "r", "r", "c", "o", "d", "e", ":", " ">> \o FormatInt(Field(e, 0).val) \o
    <<",", " ", "e", "r", "r", "m", "s", "g", ":", " ">> \o Field(e, 1).val

\* an *Error used as an error value
ApiError(e) == Err("*Error", ErrorText(e))

(***************************************************************************)
(* The inputs of a logical call and the results the environment can give.  *)
(***************************************************************************)
\* application error codes that are neither OK nor the expiry code
OtherCodes == {40003}

Codes == {ErrCodeOK, ErrCodeSuiteAccessTokenExpired} \cup OtherCodes

Msgs == {<<"o", "k">>, <<"e", "x", "p">>}

OldMsg == <<"o", "l", "d">>

\* what the caller can pass as response: a *corp.Error or a pointer to a
\* struct embedding it, freshly zeroed or still holding an earlier result
Targets ==
    {Error(ErrCodeOK, <<>>),
     Error(ErrCodeSuiteAccessTokenExpired, OldMsg),
     Result(ErrCodeOK, <<>>, 0),
     Result(ErrCodeSuiteAccessTokenExpired, OldMsg, MaxData + 1)}

\* what the caller can pass as request
Requests == {IntV(42), StrV(<<"a", "&">>), ChanV}

\* one token of every length, running through the alphabet
Tokens == {[j \in 1..n |-> TokenAlphabet[((j - 1) % 3) + 1]] : n \in 1..MaxTokenLen}

Keys == {"errcode", "errmsg", "data"}

\* the JSON values a member of a response object can have
MemberValues(k) ==
    CASE k = "errcode" -> {IntV(c) : c \in Codes}
      [] k = "errmsg" -> {StrV(m) : m \in Msgs}
      [] k = "data" -> {IntV(d) : d \in 1..MaxData} \cup {StrV(<<"x">>)}

Objects ==
    UNION {{m \in [S -> UNION {MemberValues(k) : k \in Keys}] :
                \A k \in S : m[k] \in MemberValues(k)} : S \in SUBSET Keys}

Bodies == {MalformedBody} \cup {ObjectBody(m) : m \in Objects}

Status200 == <<"2", "0", "0", " ", "O", "K">>

Status500 == <<"5", "0", "0", " ", "I", "n", "t", "e", "r", "n", "a", "l", " ", "S", "e", "r", "v", "e", "r", " ", "E", "r", "r", "o", "r">>

\* an http.Response: StatusCode, Status, Body, and how often Body was closed
Response(code, status, body) ==
    [StatusCode |-> code, Status |-> status, Body |-> body, closed |-> 0]

Responses ==
    {Response(StatusOK, Status200, b) : b \in Bodies} \cup
    {Response(500, Status500, b) :
        b \in {MalformedBody,
               ObjectBody([k \in Keys |->
                   CASE k = "errcode" -> IntV(ErrCodeSuiteAccessTokenExpired)
                     [] k = "errmsg" -> StrV(<<"e", "x", "p">>)
                     [] k = "data" -> IntV(1)])}}

TokenError == Err("provider", <<"t", "o", "k", "e", "n">>)

RefreshError == Err("provider", <<"r", "e", "f", "r", "e", "s", "h">>)

NetError == Err("net", <<"d", "i", "a", "l">>)

EncodeError == Err("json.UnsupportedTypeError", <<"c", "h", "a", "n">>)

SyntaxError == Err("json.SyntaxError", <<"s", "y", "n", "t", "a", "x">>)

TypeError == Err("json.UnmarshalTypeError", <<"t", "y", "p", "e">>)

IncompleteURL == <<"u", "?", "t", "=">>

ContentType == <<"a", "p", "p", "l", "i", "c", "a", "t", "i", "o", "n", "/", "j", "s", "o", "n", ";", " ", "c", "h", "a", "r", "s", "e", "t", "=", "u", "t", "f", "-", "8">>

Buffers == 1..NumBuffers

\* what an earlier call left in the pooled buffer it used
StaleBytes == <<"9", "\n">>

(***************************************************************************)
(* State.                                                                  *)
(***************************************************************************)
VARIABLES
    verb,            \* "POST" (PostJSON) or "GET" (GetJSON)
    request,         \* PostJSON's request argument
    responseIn,      \* *response as the caller passed it
    response,        \* *response now
    pc,              \* where the call is
    err,             \* the named result err
    token,           \* the local token
    hasRetried,      \* the local hasRetried
    buf,             \* the buffer PostJSON took from the pool, 0 if none
    textBufferPool,  \* the buffers in the pool
    bufBytes,        \* the contents of every buffer
    puts,            \* how often the call put its buffer back
    sent,            \* the HTTP requests issued, in order
    resps,           \* the HTTP responses obtained, in order
    providerCalls,   \* the calls made to the AccessTokenServer, in order
    seen,            \* the values of ErrCode the switch has examined, in order
    calls            \* the calls running together on one client, when several do

vars == <<verb, request, responseIn, response, pc, err, token, hasRetried,
          buf, textBufferPool, bufBytes, puts, sent, resps, providerCalls, seen,
          calls>>

\* the inputs, which no step of the call changes, and the other calls, of
\* which there are none when one call is followed alone
args == <<verb, request, responseIn, calls>>

\* the local httpResp: the response obtained last
httpResp == resps[Len(resps)]

\* requestBytes := buf.Bytes(): a view of the buffer, not a copy
requestBytes == bufBytes[buf]

Init ==
    /\ verb \in {"POST", "GET"}
    /\ request \in (IF verb = "POST" THEN Requests ELSE {IntV(0)})
    /\ responseIn \in Targets
    /\ response = responseIn
    /\ pc = IF verb = "POST" THEN "encode" ELSE "token"
    /\ err = Nil
    /\ token = <<>>
    /\ hasRetried = FALSE
    /\ buf = 0
    /\ textBufferPool = Buffers
    /\ bufBytes = [b \in Buffers |-> IF b = 1 THEN StaleBytes ELSE <<>>]
    /\ puts = 0
    /\ sent = <<>>
    /\ resps = <<>>
    /\ providerCalls = <<>>
    /\ seen = <<>>
    /\ calls = <<>>

\* Return putting the buffer back on success only: no defer, a Put before the
\* final return
ReturnPutOnSuccess(e, pool, buffer) ==
    /\ pc' = "done"
    /\ err' = e
    /\ resps' = [i \in DOMAIN resps |-> [resps[i] EXCEPT !.closed = @ + 1]]
    /\ textBufferPool' = IF buffer # 0 /\ e = Nil THEN pool \cup {buffer} ELSE pool
    /\ puts' = IF buffer # 0 /\ e = Nil THEN puts + 1 ELSE puts

\* Return whose deferred closes all read httpResp when they run: each of them
\* closes the body of the last response
ReturnCloseLast(e, pool, buffer) ==
    /\ pc' = "done"
    /\ err' = e
    /\ resps' = [i \in DOMAIN resps |->
                    [resps[i] EXCEPT !.closed = IF i = Len(resps) THEN @ + Len(resps) ELSE @]]
    /\ textBufferPool' = IF buffer # 0 THEN pool \cup {buffer} ELSE pool
    /\ puts' = IF buffer # 0 THEN puts + 1 ELSE puts

\* return e: the deferred calls run, closing every response body obtained
\* and putting the buffer back
Return(e, pool, buffer) ==
    /\ pc' = "done"
    /\ err' = e
    /\ resps' = [i \in DOMAIN resps |-> [resps[i] EXCEPT !.closed = @ + 1]]
    /\ textBufferPool' = IF buffer # 0 THEN pool \cup {buffer} ELSE pool
    /\ puts' = IF buffer # 0 THEN puts + 1 ELSE puts

\* Encode without the err != nil test: the call goes on with an empty body
EncodeNoCheck ==
    /\ pc = "encode"
    /\ \E b \in textBufferPool :
         /\ buf' = b
         /\ bufBytes' = [bufBytes EXCEPT ![b] =
                            IF Unsupported(request) THEN <<>>
                            ELSE Marshal(request) \o <<"\n">>]
         /\ err' = IF Unsupported(request) THEN EncodeError ELSE err
         /\ pc' = "token"
         /\ textBufferPool' = textBufferPool \ {b}
    /\ UNCHANGED <<args, response, token, hasRetried, sent, providerCalls, seen, resps, puts>>

\* PostJSON up to requestBytes := buf.Bytes()
Encode ==
    /\ pc = "encode"
    /\ \E b \in textBufferPool :
         /\ buf' = b
         /\ IF Unsupported(request)
              THEN /\ bufBytes' = [bufBytes EXCEPT ![b] = <<>>]
                   /\ Return(EncodeError, textBufferPool \ {b}, b)
              ELSE /\ bufBytes' = [bufBytes EXCEPT ![b] = Marshal(request) \o <<"\n">>]
                   /\ pc' = "token"
                   /\ textBufferPool' = textBufferPool \ {b}
                   /\ UNCHANGED <<err, resps, puts>>
    /\ UNCHANGED <<args, response, token, hasRetried, sent, providerCalls, seen>>

\* Token without the err != nil test: the call goes on after a failed fetch
TokenNoCheck ==
    /\ pc = "token"
    /\ \/ /\ providerCalls' = Append(providerCalls,
                                  [op |-> "Token", token |-> <<>>, err |-> TokenError])
          /\ token' = <<>>
          /\ err' = TokenError
       \/ \E t \in Tokens :
             /\ providerCalls' = Append(providerCalls,
                                     [op |-> "Token", token |-> t, err |-> Nil])
             /\ token' = t
             /\ err' = Nil
    /\ hasRetried' = FALSE
    /\ pc' = "RETRY"
    /\ UNCHANGED <<args, response, buf, bufBytes, sent, seen, resps, textBufferPool, puts>>

\* token, err := clt.Token(); hasRetried := false
Token ==
    /\ pc = "token"
    /\ \/ /\ providerCalls' = Append(providerCalls,
                                  [op |-> "Token", token |-> <<>>, err |-> TokenError])
          /\ Return(TokenError, textBufferPool, buf)
          /\ UNCHANGED <<token, hasRetried>>
       \/ \E t \in Tokens :
             /\ providerCalls' = Append(providerCalls,
                                     [op |-> "Token", token |-> t, err |-> Nil])
             /\ token' = t
             /\ hasRetried' = FALSE
             /\ err' = Nil
             /\ pc' = "RETRY"
             /\ UNCHANGED <<resps, textBufferPool, puts>>
    /\ UNCHANGED <<args, response, buf, bufBytes, sent, seen>>

\* finalURL := incompleteURL + url.QueryEscape(token)
finalURL == IncompleteURL \o QueryEscape(token)

\* the request clt.HttpClient.Post or clt.HttpClient.Get puts on the wire
HttpRequest ==
    IF verb = "POST"
        THEN [method |-> "POST", url |-> finalURL,
              contentType |-> ContentType, body |-> requestBytes]
        ELSE [method |-> "GET", url |-> finalURL,
              contentType |-> <<>>, body |-> <<>>]

\* RETRY: the HTTP round trip; defer httpResp.Body.Close()
Send ==
    /\ pc = "RETRY"
    /\ sent' = Append(sent, HttpRequest)
    /\ \/ Return(NetError, textBufferPool, buf)
       \/ \E r \in Responses :
             /\ resps' = Append(resps, r)
             /\ err' = Nil
             /\ pc' = "status"
             /\ UNCHANGED <<textBufferPool, puts>>
    /\ UNCHANGED <<args, response, token, hasRetried, buf, bufBytes, providerCalls, seen>>

\* CheckStatus without the test: every response goes on to be decoded
CheckStatusNone ==
    /\ pc = "status"
    /\ pc' = "decode"
    /\ UNCHANGED <<args, response, token, hasRetried, buf, bufBytes, sent,
                   providerCalls, seen, err, resps, textBufferPool, puts>>

\* if httpResp.StatusCode != http.StatusOK
CheckStatus ==
    /\ pc = "status"
    /\ IF httpResp.StatusCode # StatusOK
         THEN Return(StatusError(httpResp.Status), textBufferPool, buf)
         ELSE /\ pc' = "decode"
              /\ UNCHANGED <<err, resps, textBufferPool, puts>>
    /\ UNCHANGED <<args, response, token, hasRetried, buf, bufBytes, sent, providerCalls, seen>>

\* json.NewDecoder(httpResp.Body).Decode(response)
Decode ==
    /\ pc = "decode"
    /\ IF ~httpResp.Body.valid
         THEN /\ Return(SyntaxError, textBufferPool, buf)
              /\ UNCHANGED response
         ELSE /\ response' = Unmarshal(response, httpResp.Body.members)
              /\ IF TypeMismatch(response, httpResp.Body.members)
                   THEN Return(TypeError, textBufferPool, buf)
                   ELSE /\ err' = Nil
                        /\ pc' = "switch"
                        /\ UNCHANGED <<resps, textBufferPool, puts>>
    /\ UNCHANGED <<args, token, hasRetried, buf, bufBytes, sent, providerCalls, seen>>

\* the status object: the first field if it is a struct, else the whole value
ErrorStructValue(responseStructValue) ==
    IF Kind(Field(responseStructValue, 0)) = "struct"
        THEN Field(responseStructValue, 0)
        ELSE responseStructValue

\* ErrCode that knows the bare *Error shape only: an embedding struct reads as 0
ErrCodeBareOnly(responseStructValue) ==
    IF Kind(Field(responseStructValue, 0)) = "int"
        THEN Field(responseStructValue, 0).val
        ELSE 0

\* ErrCode := ErrorStructValue.Field(0).Int()
ErrCode(responseStructValue) == Field(ErrorStructValue(responseStructValue), 0).val

\* ErrMsg := ErrorStructValue.Field(1).String()
ErrMsg(responseStructValue) == Field(ErrorStructValue(responseStructValue), 1).val

\* Branch without the hasRetried test: the expiry code always retries
BranchNoFlag(code, retried) ==
    CASE code = ErrCodeOK -> "return"
      [] code = ErrCodeSuiteAccessTokenExpired -> "retry"
      [] OTHER -> "return"

\* Branch with the hasRetried test inverted
BranchInverted(code, retried) ==
    CASE code = ErrCodeOK -> "return"
      [] code = ErrCodeSuiteAccessTokenExpired /\ retried -> "retry"
      [] OTHER -> "return"

\* Branch retrying on every non-zero code
BranchAnyError(code, retried) ==
    CASE code = ErrCodeOK -> "return"
      [] ~retried -> "retry"
      [] OTHER -> "return"

\* the branch the switch takes on ErrCode: the OK case and the default
\* return, the expiry case retries unless hasRetried and else falls through
Branch(code, retried) ==
    CASE code = ErrCodeOK -> "return"
      [] code = ErrCodeSuiteAccessTokenExpired /\ ~retried -> "retry"
      [] OTHER -> "return"

\* Switch returning the status object as the error on a non-zero code
SwitchApiError ==
    /\ pc = "switch"
    /\ seen' = Append(seen, ErrCode(response))
    /\ IF Branch(ErrCode(response), hasRetried) = "retry"
         THEN /\ hasRetried' = TRUE
              /\ pc' = "refresh"
              /\ UNCHANGED <<err, resps, textBufferPool, puts>>
         ELSE /\ Return(IF ErrCode(response) = ErrCodeOK THEN err
                         ELSE ApiError(ErrorStructValue(response)),
                        textBufferPool, buf)
              /\ UNCHANGED hasRetried
    /\ UNCHANGED <<args, response, token, buf, bufBytes, sent, providerCalls>>

\* switch ErrCode := ErrorStructValue.Field(0).Int(); ErrCode { ... }
Switch ==
    /\ pc = "switch"
    /\ seen' = Append(seen, ErrCode(response))
    /\ IF Branch(ErrCode(response), hasRetried) = "retry"
         THEN /\ hasRetried' = TRUE
              /\ pc' = "refresh"
              /\ UNCHANGED <<err, resps, textBufferPool, puts>>
         ELSE /\ Return(err, textBufferPool, buf)
              /\ UNCHANGED hasRetried
    /\ UNCHANGED <<args, response, token, buf, bufBytes, sent, providerCalls>>

\* TokenRefresh without the err != nil test: after a failed refresh the
\* call retries with the token it had
TokenRefreshNoCheck ==
    /\ pc = "refresh"
    /\ \/ /\ providerCalls' = Append(providerCalls,
                                  [op |-> "TokenRefresh", token |-> <<>>, err |-> RefreshError])
          /\ token' = token
          /\ err' = RefreshError
       \/ \E t \in Tokens :
             /\ providerCalls' = Append(providerCalls,
                                     [op |-> "TokenRefresh", token |-> t, err |-> Nil])
             /\ token' = t
             /\ err' = Nil
    /\ response' = Zero(response)
    /\ pc' = "RETRY"
    /\ UNCHANGED <<args, hasRetried, buf, bufBytes, sent, seen, resps, textBufferPool, puts>>

\* TokenRefresh assigning to a shadowing token: the retry uses the old token
TokenRefreshShadow ==
    /\ pc = "refresh"
    /\ \/ /\ providerCalls' = Append(providerCalls,
                                  [op |-> "TokenRefresh", token |-> <<>>, err |-> RefreshError])
          /\ Return(RefreshError, textBufferPool, buf)
          /\ UNCHANGED response
       \/ \E t \in Tokens :
             /\ providerCalls' = Append(providerCalls,
                                     [op |-> "TokenRefresh", token |-> t, err |-> Nil])
             /\ err' = Nil
             /\ response' = Zero(response)
             /\ pc' = "RETRY"
             /\ UNCHANGED <<resps, textBufferPool, puts>>
    /\ UNCHANGED <<args, token, hasRetried, buf, bufBytes, sent, seen>>

\* TokenRefresh zeroing the response before it asks the provider
TokenRefreshResetFirst ==
    /\ pc = "refresh"
    /\ response' = Zero(response)
    /\ \/ /\ providerCalls' = Append(providerCalls,
                                  [op |-> "TokenRefresh", token |-> <<>>, err |-> RefreshError])
          /\ token' = <<>>
          /\ Return(RefreshError, textBufferPool, buf)
       \/ \E t \in Tokens :
             /\ providerCalls' = Append(providerCalls,
                                     [op |-> "TokenRefresh", token |-> t, err |-> Nil])
             /\ token' = t
             /\ err' = Nil
             /\ pc' = "RETRY"
             /\ UNCHANGED <<resps, textBufferPool, puts>>
    /\ UNCHANGED <<args, hasRetried, buf, bufBytes, sent, seen>>

\* token, err = clt.TokenRefresh(); the response is zeroed; goto RETRY
TokenRefresh ==
    /\ pc = "refresh"
    /\ \/ /\ providerCalls' = Append(providerCalls,
                                  [op |-> "TokenRefresh", token |-> <<>>, err |-> RefreshError])
          /\ token' = <<>>
          /\ Return(RefreshError, textBufferPool, buf)
          /\ UNCHANGED response
       \/ \E t \in Tokens :
             /\ providerCalls' = Append(providerCalls,
                                     [op |-> "TokenRefresh", token |-> t, err |-> Nil])
             /\ token' = t
             /\ err' = Nil
             /\ response' = Zero(response)
             /\ pc' = "RETRY"
             /\ UNCHANGED <<resps, textBufferPool, puts>>
    /\ UNCHANGED <<args, hasRetried, buf, bufBytes, sent, seen>>

Next ==
    \/ Encode
    \/ Token
    \/ Send
    \/ CheckStatus
    \/ Decode
    \/ Switch
    \/ TokenRefresh

Spec == Init /\ [][Next]_vars

(***************************************************************************)
(* GetJSON as a function of what the environment answers: answers.provider *)
(* are the results of the provider calls and answers.http the outcomes of  *)
(* the HTTP round trips, in the order they are asked for.                  *)
(***************************************************************************)
\* GetBranch retrying on every non-zero code
GetBranchAnyError(code, retried) ==
    CASE code = ErrCodeOK -> "return"
      [] ~retried -> "retry"
      [] OTHER -> "return"

\* GetJSON's switch on ErrCode
GetBranch(code, retried) ==
    CASE code = ErrCodeOK -> "return"
      [] code = ErrCodeSuiteAccessTokenExpired ->
            IF ~retried THEN "retry" ELSE "return"
      [] OTHER -> "return"

\* the call asked for an answer the environment never gave
GetStuck == [stuck |-> TRUE, err |-> Nil, response |-> IntV(0), ops |-> <<>>, urls |-> <<>>]

\* GetJSON from the label RETRY on; s holds the locals, the provider calls
\* made and the URLs requested so far
RECURSIVE GetJSONFromRetry(_, _)
GetJSONFromRetry(s, answers) ==
    IF Len(s.urls) >= Len(answers.http) THEN GetStuck
    ELSE
    LET urls == Append(s.urls, IncompleteURL \o QueryEscape(s.token))
        a == answers.http[Len(urls)]
        return(e, r) == [stuck |-> FALSE, err |-> e, response |-> r,
                         ops |-> s.ops, urls |-> urls]
    IN  IF a.failed THEN return(NetError, s.response)
        ELSE IF a.resp.StatusCode # StatusOK
            THEN return(StatusError(a.resp.Status), s.response)
        ELSE IF ~a.resp.Body.valid THEN return(SyntaxError, s.response)
        ELSE
        LET r == Unmarshal(s.response, a.resp.Body.members)
        IN  IF TypeMismatch(s.response, a.resp.Body.members) THEN return(TypeError, r)
            ELSE IF GetBranch(ErrCode(r), s.hasRetried) = "return" THEN return(Nil, r)
            ELSE IF Len(s.ops) >= Len(answers.provider) THEN GetStuck
            ELSE
            LET p == answers.provider[Len(s.ops) + 1]
                ops == Append(s.ops, "TokenRefresh")
            IN  IF p.err # Nil
                    THEN [stuck |-> FALSE, err |-> p.err, response |-> r,
                          ops |-> ops, urls |-> urls]
                    ELSE GetJSONFromRetry(
                             [token |-> p.token, hasRetried |-> TRUE,
                              response |-> Zero(r), ops |-> ops, urls |-> urls],
                             answers)

\* func (clt *Client) GetJSON(incompleteURL, response): what it returns, what
\* it leaves in *response, the provider calls it made and the URLs it got
GetJSON(target, answers) ==
    IF answers.provider = <<>> THEN GetStuck
    ELSE
    LET p == answers.provider[1]
    IN  IF p.err # Nil
            THEN [stuck |-> FALSE, err |-> p.err, response |-> target,
                  ops |-> <<"Token">>, urls |-> <<>>]
            ELSE GetJSONFromRetry(
                     [token |-> p.token, hasRetried |-> FALSE, response |-> target,
                      ops |-> <<"Token">>, urls |-> <<>>],
                     answers)

\* each provider call and each HTTP call returns, and the code between them
\* runs on: a call that can take a step takes one
FairSpec == Spec /\ WF_vars(Next)

(***************************************************************************)
(* Several calls on one client.  Each call has its own locals, kept in     *)
(* calls[id]; the calls share textBufferPool and the buffers in it.  The    *)
(* steps are those of one call, taken by any call that is not finished.    *)
(***************************************************************************)
CallIds == 1..NumCalls

\* the token the provider hands to the calls
ConcToken == <<"&">>

\* the responses the calls get: a 200 with each status code, and a 500
ConcResponses ==
    {Response(StatusOK, Status200, ObjectBody([k \in {"errcode"} |-> IntV(c)])) :
        c \in Codes} \cup
    {Response(500, Status500, MalformedBody)}

\* the variables of the call followed alone, at rest when several calls run
alone == <<verb, request, responseIn, response, pc, err, token, hasRetried,
           buf, puts, sent, resps, providerCalls, seen>>

\* a single hasRetried shared by all calls, as a field of the client would be
FlagSlotShared(id) == 1

\* where call id keeps hasRetried: a local of its own invocation
FlagSlot(id) == id

\* the pool after it has handed out buffer b: b is no longer in it
PoolTake(pool, b) == pool \ {b}

\* a call about to start: PostJSON(incompleteURL, id, &Error{}) or
\* GetJSON(incompleteURL, &Error{})
NewCall(id, v) ==
    [verb |-> v,
     request |-> IntV(id),
     response |-> Error(ErrCodeOK, <<>>),
     pc |-> IF v = "POST" THEN "encode" ELSE "token",
     err |-> Nil,
     token |-> <<>>,
     hasRetried |-> FALSE,
     buf |-> 0,
     puts |-> 0,
     sent |-> <<>>,
     httpResp |-> Response(0, <<>>, MalformedBody),
     seen |-> <<>>,
     refreshes |-> 0]

InitConc ==
    /\ verb = "GET"
    /\ request = IntV(0)
    /\ responseIn = Error(ErrCodeOK, <<>>)
    /\ response = responseIn
    /\ pc = "done"
    /\ err = Nil
    /\ token = <<>>
    /\ hasRetried = FALSE
    /\ buf = 0
    /\ puts = 0
    /\ sent = <<>>
    /\ resps = <<>>
    /\ providerCalls = <<>>
    /\ seen = <<>>
    /\ textBufferPool = {1}
    /\ bufBytes = [b \in {1} |-> StaleBytes]
    /\ \E vs \in [CallIds -> {"POST", "GET"}] :
         calls = [id \in CallIds |-> NewCall(id, vs[id])]

\* call id returns e: its deferred Put runs
ConcReturn(id, e, cs) ==
    /\ calls' = [cs EXCEPT ![id].pc = "done",
                           ![id].err = e,
                           ![id].puts = IF cs[id].buf # 0 THEN @ + 1 ELSE @]
    /\ textBufferPool' = IF cs[id].buf # 0
                           THEN textBufferPool \cup {cs[id].buf}
                           ELSE textBufferPool

\* ConcEncode with the Put made right after buf.Bytes() instead of deferred
ConcEncodePutEarly(id) ==
    /\ calls[id].pc = "encode"
    /\ \E b \in textBufferPool \cup {Cardinality(DOMAIN bufBytes) + 1} :
         /\ bufBytes' = [x \in DOMAIN bufBytes \cup {b} |->
                            IF x = b THEN Marshal(calls[id].request) \o <<"\n">>
                            ELSE bufBytes[x]]
         /\ textBufferPool' = textBufferPool \cup {b}
         /\ calls' = [calls EXCEPT ![id].buf = b, ![id].pc = "token", ![id].puts = 1]
    /\ UNCHANGED alone

\* PostJSON of call id up to requestBytes := buf.Bytes(): Get hands out a
\* buffer of the pool or a new one
ConcEncode(id) ==
    /\ calls[id].pc = "encode"
    /\ \E b \in textBufferPool \cup {Cardinality(DOMAIN bufBytes) + 1} :
         IF Unsupported(calls[id].request)
           THEN /\ bufBytes' = [x \in DOMAIN bufBytes \cup {b} |->
                                   IF x = b THEN <<>> ELSE bufBytes[x]]
                /\ calls' = [calls EXCEPT ![id].buf = b, ![id].pc = "done",
                                          ![id].err = EncodeError, ![id].puts = 1]
                /\ textBufferPool' = PoolTake(textBufferPool, b) \cup {b}
           ELSE /\ bufBytes' = [x \in DOMAIN bufBytes \cup {b} |->
                                   IF x = b THEN Marshal(calls[id].request) \o <<"\n">>
                                   ELSE bufBytes[x]]
                /\ textBufferPool' = PoolTake(textBufferPool, b)
                /\ calls' = [calls EXCEPT ![id].buf = b, ![id].pc = "token"]
    /\ UNCHANGED alone

\* token, err := clt.Token(); hasRetried := false, by call id
ConcFetch(id) ==
    /\ calls[id].pc = "token"
    /\ \/ /\ ConcReturn(id, TokenError, calls)
       \/ /\ calls' = [calls EXCEPT ![id].token = ConcToken,
                                    ![id].err = Nil,
                                    ![id].pc = "RETRY",
                                    ![FlagSlot(id)].hasRetried = FALSE]
          /\ UNCHANGED textBufferPool
    /\ UNCHANGED <<alone, bufBytes>>

\* the request call id puts on the wire: the body is what its buffer holds now
ConcHttpRequest(id) ==
    [method |-> calls[id].verb,
     url |-> IncompleteURL \o QueryEscape(calls[id].token),
     body |-> IF calls[id].verb = "POST" THEN bufBytes[calls[id].buf] ELSE <<>>]

\* RETRY: the HTTP round trip of call id
ConcSend(id) ==
    /\ calls[id].pc = "RETRY"
    /\ LET cs == [calls EXCEPT ![id].sent = Append(@, ConcHttpRequest(id))]
       IN  \/ ConcReturn(id, NetError, cs)
           \/ \E r \in ConcResponses :
                 /\ calls' = [cs EXCEPT ![id].httpResp = r,
                                        ![id].err = Nil,
                                        ![id].pc = "status"]
                 /\ UNCHANGED textBufferPool
    /\ UNCHANGED <<alone, bufBytes>>

\* if httpResp.StatusCode != http.StatusOK, by call id
ConcCheckStatus(id) ==
    /\ calls[id].pc = "status"
    /\ IF calls[id].httpResp.StatusCode # StatusOK
         THEN ConcReturn(id, StatusError(calls[id].httpResp.Status), calls)
         ELSE /\ calls' = [calls EXCEPT ![id].pc = "decode"]
              /\ UNCHANGED textBufferPool
    /\ UNCHANGED <<alone, bufBytes>>

\* json.NewDecoder(httpResp.Body).Decode(response), by call id
ConcDecode(id) ==
    /\ calls[id].pc = "decode"
    /\ LET body == calls[id].httpResp.Body
       IN  IF ~body.valid
             THEN ConcReturn(id, SyntaxError, calls)
             ELSE LET cs == [calls EXCEPT ![id].response = Unmarshal(@, body.members)]
                  IN  IF TypeMismatch(calls[id].response, body.members)
                        THEN ConcReturn(id, TypeError, cs)
                        ELSE /\ calls' = [cs EXCEPT ![id].err = Nil, ![id].pc = "switch"]
                             /\ UNCHANGED textBufferPool
    /\ UNCHANGED <<alone, bufBytes>>

\* the switch on ErrCode, by call id
ConcSwitch(id) ==
    /\ calls[id].pc = "switch"
    /\ LET code == ErrCode(calls[id].response)
           cs == [calls EXCEPT ![id].seen = Append(@, code)]
       IN  IF Branch(code, calls[FlagSlot(id)].hasRetried) = "retry"
             THEN /\ calls' = [cs EXCEPT ![FlagSlot(id)].hasRetried = TRUE,
                                         ![id].pc = "refresh"]
                  /\ UNCHANGED textBufferPool
             ELSE ConcReturn(id, calls[id].err, cs)
    /\ UNCHANGED <<alone, bufBytes>>

\* token, err = clt.TokenRefresh(); the response is zeroed; goto RETRY, by call id
ConcTokenRefresh(id) ==
    /\ calls[id].pc = "refresh"
    /\ LET cs == [calls EXCEPT ![id].refreshes = @ + 1]
       IN  \/ ConcReturn(id, RefreshError, [cs EXCEPT ![id].token = <<>>])
           \/ /\ calls' = [cs EXCEPT ![id].token = ConcToken,
                                     ![id].err = Nil,
                                     ![id].response = Zero(@),
                                     ![id].pc = "RETRY"]
              /\ UNCHANGED textBufferPool
    /\ UNCHANGED <<alone, bufBytes>>

NextConc ==
    \/ \E id \in CallIds : ConcEncode(id)
    \/ \E id \in CallIds : ConcFetch(id)
    \/ \E id \in CallIds : ConcSend(id)
    \/ \E id \in CallIds : ConcCheckStatus(id)
    \/ \E id \in CallIds : ConcDecode(id)
    \/ \E id \in CallIds : ConcSwitch(id)
    \/ \E id \in CallIds : ConcTokenRefresh(id)

SpecConc == InitConc /\ [][NextConc]_vars

(***************************************************************************)
(* What a finished or running call has done.                               *)
(***************************************************************************)
\* the number of HTTP requests issued
HttpCount == Len(sent)

\* the number of forced refreshes asked of the provider
RefreshCount == Cardinality({i \in DOMAIN providerCalls : providerCalls[i].op = "TokenRefresh"})

TypeOK ==
    /\ pc \in {"encode", "token", "RETRY", "status", "decode", "switch", "refresh", "done"}
    /\ hasRetried \in BOOLEAN
    /\ HttpCount >= Len(resps)

(***************************************************************************)
(* Properties of a logical call.                                           *)
(***************************************************************************)
\* the field of v that json names k: <<field>>, or <<>> if v has none
RECURSIVE Lookup(_, _)
Lookup(v, k) ==
    Concat([i \in DOMAIN v.fields |->
        IF v.names[i] = "" THEN Lookup(v.fields[i], k)
        ELSE IF v.names[i] = k THEN <<v.fields[i]>>
        ELSE <<>>])

\* x is the zero value of an int or of a string
IsZero(x) == (x.kind = "int" /\ x.val = 0) \/ (x.kind = "string" /\ x.val = <<>>)

\* every field of v is zero
AllZero(v) == \A k \in Keys : \A i \in DOMAIN Lookup(v, k) : IsZero(Lookup(v, k)[i])

\* the members of the body of the i-th response
BodyOf(i) == resps[i].Body.members

\* the errmsg of the i-th response, empty if the body has none
BodyMsg(i) == IF "errmsg" \in DOMAIN BodyOf(i) THEN BodyOf(i)["errmsg"].val ELSE <<>>

\* the last provider call
LastProviderCall == providerCalls[Len(providerCalls)]

\* the provider never failed in this call
ProviderOK == \A i \in DOMAIN providerCalls : providerCalls[i].err = Nil

\* every request issued came back as a 200 that decoded with the expiry code
ExpiredEveryTime ==
    /\ HttpCount >= 1
    /\ Len(resps) = HttpCount
    /\ Len(seen) = HttpCount
    /\ \A i \in DOMAIN resps : resps[i].StatusCode = StatusOK
    /\ \A i \in DOMAIN seen : seen[i] = ErrCodeSuiteAccessTokenExpired

\* C1: whatever the provider, the transport and the server answer, a logical
\* call issues at most 2 HTTP requests and asks for at most 1 forced refresh.
C1_AtMostOneRetry == HttpCount <= 2 /\ RefreshCount <= 1

\* a call that ended after its second request and its one refresh
C1_Witness == pc = "done" /\ HttpCount = 2 /\ RefreshCount = 1

\* C2: a call whose every response is a 200 decoding to the expiry code, with
\* the provider never failing, ends after exactly 2 HTTP requests and exactly
\* 1 forced refresh.
C2_ExpiredTwiceThenStop ==
    (pc = "done" /\ ProviderOK /\ ExpiredEveryTime)
        => (HttpCount = 2 /\ RefreshCount = 1)

\* a finished call that saw the expiry code on each of its attempts
C2_Witness ==
    pc = "done" /\ ProviderOK /\ ExpiredEveryTime /\ seen =
        <<ErrCodeSuiteAccessTokenExpired, ErrCodeSuiteAccessTokenExpired>>

\* the switch has examined the expiry code for the second time
SecondExpired == Len(seen) = 2 /\ seen[2] = ErrCodeSuiteAccessTokenExpired

LastOther == Len(seen) >= 1 /\ seen[Len(seen)] \in OtherCodes

RefreshStep ==
    /\ Len(providerCalls') = Len(providerCalls) + 1
    /\ providerCalls'[Len(providerCalls')].op = "TokenRefresh"

\* this step issues an HTTP request that is not the first of the call
RetryStep == HttpCount' = HttpCount + 1 /\ HttpCount >= 1

\* the only response so far is a 200 that decoded and showed the expiry code
FirstExpired ==
    /\ HttpCount = 1
    /\ Len(resps) = 1
    /\ resps[1].StatusCode = StatusOK
    /\ resps[1].Body.valid
    /\ seen = <<ErrCodeSuiteAccessTokenExpired>>

\* C5: a forced refresh and a second HTTP request happen only in reaction to
\* a decoded 200 response showing the expiry code while the retry flag is
\* unset; a network failure, a non-200 status, a decode failure and any other
\* non-zero code end the call with the requests already issued.
C5_RetryOnlyOnFirstExpiry ==
    [][/\ (pc = "switch" /\ pc' = "refresh")
            => (~hasRetried /\ ErrCode(response) = ErrCodeSuiteAccessTokenExpired)
       /\ RefreshStep => (FirstExpired /\ RefreshCount = 0 /\ pc = "refresh")
       /\ RetryStep => (/\ FirstExpired
                        /\ RefreshCount = 1
                        /\ LastProviderCall.op = "TokenRefresh"
                        /\ LastProviderCall.err = Nil)
       /\ (pc = "RETRY" /\ Len(resps') = Len(resps)) => pc' = "done"
       /\ (pc = "status" /\ httpResp.StatusCode # StatusOK) => pc' = "done"
       /\ (pc = "decode" /\ pc' # "switch") => pc' = "done"
       /\ (pc = "switch" /\ ErrCode(response) \in OtherCodes) => pc' = "done"
       /\ (pc' = "done" /\ pc # "token" /\ pc # "refresh")
            => providerCalls' = providerCalls
       /\ (pc' = "done" /\ pc # "RETRY") => sent' = sent]_vars

\* a retried request has been issued after a refresh
C5_Witness ==
    /\ HttpCount = 2
    /\ RefreshCount = 1
    /\ seen[1] = ErrCodeSuiteAccessTokenExpired

\* the first response is a 200 that decoded with code 0
FirstOK == Len(seen) >= 1 /\ seen[1] = ErrCodeOK

\* C6: if the first response is a 200 decoding with code 0, the call returns
\* nil after exactly one HTTP request and no forced refresh, and every field
\* of the response target holds the value of its member of that response (a
\* field the response has no member for is as the caller passed it).
C6_FirstOKSucceeds ==
    FirstOK =>
        /\ pc = "done"
        /\ err = Nil
        /\ HttpCount = 1
        /\ RefreshCount = 0
        /\ \A k \in Keys :
              Lookup(response, k) =
                  IF Lookup(responseIn, k) # <<>> /\ k \in DOMAIN BodyOf(1)
                      THEN <<BodyOf(1)[k]>>
                      ELSE Lookup(responseIn, k)

\* a success whose response carries a message and a payload for the target
C6_Witness ==
    /\ FirstOK
    /\ DOMAIN BodyOf(1) = Keys
    /\ Lookup(response, "data") # <<>>
    /\ responseIn # response

\* the second response has been decoded into the response target
SecondDecoded ==
    /\ Len(resps) = 2
    /\ pc \in {"switch", "refresh", "done"}
    /\ resps[2].StatusCode = StatusOK
    /\ resps[2].Body.valid

\* C7: once a second HTTP request has been issued, every field of the
\* response target is zero until the second response is decoded, and from
\* then on is zero or the value of its member of the second response: nothing
\* decoded from the first response is left.
C7_ResetBeforeRetry ==
    HttpCount = 2 =>
        \A k \in Keys : \A i \in DOMAIN Lookup(response, k) :
            IF /\ SecondDecoded
               /\ k \in DOMAIN BodyOf(2)
               /\ BodyOf(2)[k].kind = Lookup(response, k)[i].kind
                THEN Lookup(response, k)[i] = BodyOf(2)[k]
                ELSE IsZero(Lookup(response, k)[i])

\* a first response with a payload, then a clean success without one
C7_Witness ==
    /\ pc = "done"
    /\ HttpCount = 2
    /\ SecondDecoded
    /\ seen = <<ErrCodeSuiteAccessTokenExpired, ErrCodeOK>>
    /\ Lookup(response, "data") # <<>>
    /\ "data" \in DOMAIN BodyOf(1)
    /\ BodyOf(1)["data"].kind = "int"
    /\ "data" \notin DOMAIN BodyOf(2)

\* the provider's fetch at the start of the call failed
FetchFailed == Len(providerCalls) >= 1 /\ providerCalls[1].err # Nil

\* C8: if the provider's fetch fails, the call returns that error at once,
\* with no HTTP request, no forced refresh and the response target untouched.
C8_FetchFailureIsFatal ==
    FetchFailed =>
        /\ pc = "done"
        /\ err = providerCalls[1].err
        /\ HttpCount = 0
        /\ Len(providerCalls) = 1
        /\ response = responseIn

\* a call ended by the failure of the fetch
C8_Witness == FetchFailed /\ pc = "done" /\ providerCalls[1].op = "Token"

\* the last response has a status other than 200 and the test has been made
Non200 ==
    /\ Len(resps) >= 1
    /\ httpResp.StatusCode # StatusOK
    /\ pc # "status"

\* C9: a response with a status other than 200, on the first or the retried
\* attempt, ends the call with an error made of "http.Status: " and the status
\* line; its body is not decoded into the response target, and no refresh or
\* HTTP request follows.
C9_Non200IsFatal ==
    Non200 =>
        /\ pc = "done"
        /\ err.kind = "errorString"
        /\ Len(err.text) = 13 + Len(httpResp.Status)
        /\ SubSeq(err.text, 1, 13) =
              <<"h", "t", "t", "p", ".", "S", "t", "a", "t", "u", "s", ":", " ">>
        /\ SubSeq(err.text, 14, Len(err.text)) = httpResp.Status
        /\ IF Len(resps) = 1 THEN response = responseIn ELSE AllZero(response)
        /\ HttpCount = Len(resps)
        /\ RefreshCount = Len(resps) - 1
        /\ Len(seen) = Len(resps) - 1

\* a retried attempt answered 500 with a body that would decode
C9_Witness ==
    /\ Non200
    /\ Len(resps) = 2
    /\ httpResp.Body.valid
    /\ ~AllZero(responseIn)

\* the forced refresh failed
RefreshFailed ==
    /\ Len(providerCalls) >= 1
    /\ LastProviderCall.op = "TokenRefresh"
    /\ LastProviderCall.err # Nil

\* C10: if the forced refresh fails, the call returns the provider's error as
\* it is and issues no second HTTP request.
C10_RefreshFailureIsFatal ==
    RefreshFailed =>
        /\ pc = "done"
        /\ err = LastProviderCall.err
        /\ HttpCount = 1
        /\ Len(providerCalls) = 2

\* a call ended by the failure of the forced refresh
C10_Witness == RefreshFailed /\ pc = "done" /\ HttpCount = 1

\* the call returned out of the switch: its last response was examined and
\* no refresh failed after that
EndedInSwitch ==
    /\ HttpCount >= 1
    /\ Len(resps) = HttpCount
    /\ Len(seen) = HttpCount
    /\ LastProviderCall.err = Nil

\* the terminal states of a call; a payload that cannot be serialized ends the
\* call like a failed fetch does
SUCCESS == EndedInSwitch /\ seen[Len(seen)] = ErrCodeOK /\ err = Nil

API_ERROR ==
    /\ EndedInSwitch
    /\ seen[Len(seen)] # ErrCodeOK
    /\ err.kind \notin {"provider", "net", "errorString", "json.SyntaxError",
                        "json.UnmarshalTypeError", "json.UnsupportedTypeError"}

TRANSPORT_ERROR ==
    /\ ~EndedInSwitch
    /\ err.kind \in {"provider", "net", "errorString", "json.SyntaxError",
                     "json.UnmarshalTypeError", "json.UnsupportedTypeError"}

\* the steps a call can take from one place to the next
PhaseSteps ==
    {<<"encode", "token">>, <<"encode", "done">>,
     <<"token", "RETRY">>, <<"token", "done">>,
     <<"RETRY", "status">>, <<"RETRY", "done">>,
     <<"status", "decode">>, <<"status", "done">>,
     <<"decode", "switch">>, <<"decode", "done">>,
     <<"switch", "refresh">>, <<"switch", "done">>,
     <<"refresh", "RETRY">>, <<"refresh", "done">>}

\* C11: every call ends, in exactly one of SUCCESS, API_ERROR and
\* TRANSPORT_ERROR; on the way the token is fetched, the request sent and the
\* response decoded in that order, and the call comes back to sending only by
\* the retry on the expiry code, which it takes at most once.
C11_TerminatesInOneOutcome ==
    /\ <>(pc = "done")
    /\ [](pc = "done" =>
            /\ SUCCESS \/ API_ERROR \/ TRANSPORT_ERROR
            /\ ~(SUCCESS /\ API_ERROR)
            /\ ~(SUCCESS /\ TRANSPORT_ERROR)
            /\ ~(API_ERROR /\ TRANSPORT_ERROR))
    /\ [][/\ <<pc, pc'>> \in PhaseSteps
          /\ pc' = "RETRY" =>
                \/ pc = "token" /\ HttpCount = 0
                \/ /\ pc = "refresh"
                   /\ seen = <<ErrCodeSuiteAccessTokenExpired>>
                   /\ RefreshCount = 0
                   /\ HttpCount = 1]_vars

\* a call that took the retry and ended on an application error
C11_Witness ==
    /\ pc = "done"
    /\ API_ERROR
    /\ HttpCount = 2
    /\ RefreshCount = 1

\* the payload of this PostJSON call cannot be serialized
EncodeFails == verb = "POST" /\ request.kind = "chan"

\* what the environment answered this call: the results of its provider
\* calls, and for each of its requests the response or the network failure
Answers ==
    [provider |-> providerCalls,
     http |-> [i \in 1..HttpCount |->
                  IF i <= Len(resps)
                      THEN [failed |-> FALSE, resp |-> resps[i]]
                      ELSE [failed |-> TRUE, resp |-> Response(0, <<>>, MalformedBody)]]]

\* C12: a PostJSON call whose payload serializes and a GetJSON call given the
\* same response target and the same answers make the same provider calls in
\* the same order and the same number of HTTP requests, leave the same value
\* in the response target and return the same error.
C12_GetJSONMatchesPostJSON ==
    (verb = "POST" /\ pc = "done" /\ ~EncodeFails) =>
        LET get == GetJSON(responseIn, Answers)
        IN  /\ ~get.stuck
            /\ get.ops = [i \in DOMAIN providerCalls |-> providerCalls[i].op]
            /\ Len(get.urls) = HttpCount
            /\ get.response = response
            /\ get.err = err

\* a PostJSON call that retried and got a payload on the second attempt
C12_Witness ==
    /\ verb = "POST"
    /\ pc = "done"
    /\ HttpCount = 2
    /\ SUCCESS
    /\ Lookup(response, "data") = <<IntV(1)>>

\* C15: the URL of the first request ends in the escaped token the fetch
\* returned, the URL of the retried request in the escaped token the forced
\* refresh returned; the two URLs are equal only if the two tokens are.
C15_TokenInURL ==
    /\ HttpCount >= 1 =>
          /\ providerCalls[1].op = "Token"
          /\ sent[1].url = IncompleteURL \o QueryEscape(providerCalls[1].token)
    /\ HttpCount >= 2 =>
          /\ providerCalls[2].op = "TokenRefresh"
          /\ sent[2].url = IncompleteURL \o QueryEscape(providerCalls[2].token)
          /\ sent[2].url = sent[1].url => providerCalls[2].token = providerCalls[1].token

\* a retried request carrying a refreshed token that differs from the first
C15_Witness ==
    /\ HttpCount = 2
    /\ providerCalls[1].token = <<"&">>
    /\ providerCalls[2].token = <<"&", " ">>
    /\ sent[1].url = <<"u", "?", "t", "=", "%", "2", "6">>
    /\ sent[2].url = <<"u", "?", "t", "=", "%", "2", "6", "+">>

\* the status code of a response target, found by its json name
StatusByName(v) == Lookup(v, "errcode")[1].val

\* C16: whether the response target is a bare status object or a struct whose
\* first field is one, the switch examines its errcode, and the same code
\* takes the same branch: 0 returns nil, the expiry code retries while the
\* flag is unset, anything else returns; in the embedding shape a success
\* leaves the payload field holding what was decoded into it.
C16_StatusLocatedByShape ==
    /\ [][pc = "switch" =>
            /\ seen' = Append(seen, StatusByName(response))
            /\ response' = response
            /\ IF StatusByName(response) = ErrCodeOK
                 THEN pc' = "done" /\ err' = Nil
                 ELSE IF StatusByName(response) = ErrCodeSuiteAccessTokenExpired /\ ~hasRetried
                 THEN pc' = "refresh"
                 ELSE pc' = "done"]_vars
    /\ [](pc = "done" /\ SUCCESS =>
            Lookup(response, "data") =
                IF /\ Lookup(responseIn, "data") # <<>>
                   /\ "data" \in DOMAIN BodyOf(HttpCount)
                    THEN <<BodyOf(HttpCount)["data"]>>
                    ELSE IF HttpCount = 1 THEN Lookup(responseIn, "data")
                    ELSE [i \in DOMAIN Lookup(responseIn, "data") |-> IntV(0)])

\* a success decoded into the embedding shape, its payload in place
C16_Witness ==
    /\ pc = "done"
    /\ SUCCESS
    /\ Kind(Field(response, 0)) = "struct"
    /\ Lookup(response, "data") = <<IntV(1)>>
    /\ "errmsg" \in DOMAIN BodyOf(HttpCount)

\* C17: a PostJSON call has put its buffer back exactly once when it has
\* returned, whatever the outcome, and not at all before; no HTTP request is
\* issued after the put.
C17_BufferPutOnceAtReturn ==
    /\ [](verb = "POST" =>
            IF pc = "done"
                THEN puts = 1 /\ buf \in textBufferPool
                ELSE puts = 0 /\ buf \notin textBufferPool)
    /\ [][sent' # sent => puts = 0]_vars

\* a PostJSON call that returned an error after its retried request
C17_Witness ==
    /\ verb = "POST"
    /\ pc = "done"
    /\ HttpCount = 2
    /\ err # Nil
    /\ puts = 1

\* C18: if the payload cannot be serialized, PostJSON returns that error
\* without asking the provider for anything, without an HTTP request and
\* with the response target untouched.
C18_EncodeFailureIsFatal ==
    (EncodeFails /\ pc # "encode") =>
        /\ pc = "done"
        /\ err.kind = "json.UnsupportedTypeError"
        /\ providerCalls = <<>>
        /\ sent = <<>>
        /\ response = responseIn

\* a PostJSON call ended by the failure to serialize
C18_Witness == EncodeFails /\ pc = "done" /\ ~AllZero(responseIn)

\* C19: when the forced refresh fails, the response target still holds what
\* the first response was decoded to: the expiry code and every member the
\* response had a field for.
C19_NoResetOnRefreshFailure ==
    RefreshFailed =>
        /\ Lookup(response, "errcode") = <<IntV(ErrCodeSuiteAccessTokenExpired)>>
        /\ \A k \in Keys :
              Lookup(response, k) =
                  IF Lookup(responseIn, k) # <<>> /\ k \in DOMAIN BodyOf(1)
                      THEN <<BodyOf(1)[k]>>
                      ELSE Lookup(responseIn, k)

\* a failed refresh after a first response that carried a message and a payload
C19_Witness ==
    /\ RefreshFailed
    /\ pc = "done"
    /\ DOMAIN BodyOf(1) = Keys
    /\ Lookup(response, "data") = <<IntV(1)>>
    /\ AllZero(responseIn)

\* C20: no response body is closed before the call returns and each is closed
\* exactly once when it has; the body of the first response is still open
\* when the second response arrives.
C20_BodiesClosedOnceAtReturn ==
    /\ [](\A i \in DOMAIN resps : resps[i].closed = IF pc = "done" THEN 1 ELSE 0)
    /\ [][(Len(resps) = 1 /\ Len(resps') = 2) =>
            /\ resps[1].closed = 0
            /\ resps'[1].closed = 0
            /\ resps'[2].closed = 0]_vars

\* a call that returned with two bodies to close
C20_Witness ==
    /\ pc = "done"
    /\ Len(resps) = 2
    /\ resps[1].closed = 1
    /\ resps[2].closed = 1

\* call id holds a buffer: it has taken one and has not returned
Holds(id) ==
    /\ calls[id].verb = "POST"
    /\ calls[id].pc \notin {"encode", "done"}

\* the serialized payload of call id
Payload(id) == Marshal(calls[id].request) \o <<"\n">>

\* C13: with several PostJSON calls on one client, a buffer taken from the
\* pool is held by at most one call until that call returns, and the body of
\* each request a call sends, the first and the retried one, is that call's
\* own serialized payload
C13_BufferHeldByOneCall ==
    /\ \A i \in CallIds : Holds(i) =>
          /\ calls[i].buf \notin textBufferPool
          /\ \A j \in CallIds \ {i} : Holds(j) => calls[j].buf # calls[i].buf
    /\ \A i \in CallIds : calls[i].verb = "POST" =>
          \A k \in 1..Len(calls[i].sent) : calls[i].sent[k].body = Payload(i)

\* one call has sent its first and its retried request while another call
\* holds a buffer and has sent a request too
C13_Witness ==
    \E i, j \in CallIds :
       /\ i # j
       /\ Holds(i) /\ Len(calls[i].sent) = 2
       /\ Holds(j) /\ Len(calls[j].sent) >= 1
       /\ Payload(i) # Payload(j)

\* call id has taken the retry branch of the switch
TookRetry(id) == calls[id].pc = "refresh" \/ calls[id].refreshes = 1

\* C14: the retry flag is private to a call: each call starts its first
\* request with the flag unset, makes at most one refresh and retry whatever
\* the other calls did, and gets its retry when its own first answer is the
\* expired-token code
C14_RetryFlagPerCall ==
    \A i \in CallIds :
       /\ calls[i].refreshes <= 1
       /\ Len(calls[i].sent) <= 2
       /\ calls[i].pc \notin {"encode", "token"} =>
             calls[FlagSlot(i)].hasRetried = TookRetry(i)
       /\ (Len(calls[i].seen) >= 1 /\ calls[i].seen[1] = ErrCodeSuiteAccessTokenExpired)
             => TookRetry(i)
       /\ Len(calls[i].seen) = 2 => calls[i].seen[1] = ErrCodeSuiteAccessTokenExpired

\* one call has used its retry and returned, and another call, started on
\* the same client, has then taken its own retry
C14_Witness ==
    \E i, j \in CallIds :
       /\ i # j
       /\ calls[i].pc = "done" /\ calls[i].refreshes = 1 /\ Len(calls[i].sent) = 2
       /\ calls[j].pc = "refresh" /\ Len(calls[j].sent) = 1

====
